---- MODULE Spec2Model ----
(***************************************************************************)
(* Model of cargo-v5: the VEX V5 wire protocol wrapper                     *)
(* (src/v5/protocol/vex.rs) and the chunked file writer (src/util.rs).     *)
(*                                                                         *)
(* and the upload of a file (src/files.rs).                                *)
(*                                                                         *)
(* Five specifications share the variables:                                *)
(*   SpecWrite  one call of util::write_file_progress                      *)
(*   SpecSend   one call of send_simple / send_extended                    *)
(*   Spec       one call of receive_simple on a stream fed by a device     *)
(*   SpecLoop   send_simple, then receive_simple, on a loopback stream     *)
(*   SpecUpload one call of files::upload_file                             *)
(***************************************************************************)
EXTENDS Integers, Sequences, FiniteSets, TLC

VARIABLES
    \* ---- util.rs: write_file_progress --------------------------------
    max_packet_size,   \* handle.transfer_metadata.max_packet_size (u16)
    file_size,         \* handle.transfer_metadata.file_size (u32)
    addr,              \* handle.metadata.addr (u32)
    data,              \* the data: Vec<u8> argument
    wf_pc,             \* "idle" | "loop" | "writing" | "done"
    max_size,          \* local max_size (u16)
    size,              \* local size (u32)
    i,                 \* loop variable of the step_by iterator
    packet_size,       \* local packet_size of the current iteration (u16)
    how_much,          \* local how_much
    bar,               \* the indicatif ProgressBar: [len, pos, finished]
    writes,            \* the write_some calls issued, in call order:
                       \* <<[address, payload, status, reported]>>, reported
                       \* the byte count write_some returned, status being
                       \* "pending" (not returned yet) | "ok" | "err"
    reads,             \* buffer indices (0-based) sliced out of data so far
    wf_result,         \* [kind |-> "none" | "Ok" | "Err" | "Panic", value]
    \* ---- vex.rs: the wrapped stream (self.wraps) ----------------------
    loopback,          \* TRUE: what is written to the stream is read back
    tail,              \* what a read finds once inp is used up:
                       \* "eof" (the read fails) | "block" (it waits)
    inp,               \* bytes the stream still has to deliver
    consumed,          \* bytes read from the stream so far
    stream_ops,        \* the calls made on the write side, in order:
                       \* [op |-> "write", offered, bytes, res], a write call
                       \* offered that many bytes, which took `bytes` and
                       \* returned "ok" | "interrupted" | "err", and
                       \* [op |-> "flush", ok]
    \* ---- vex.rs: send_simple / send_extended --------------------------
    tx_op,             \* "none" | "simple" | "extended"
    tx_cmd,            \* the command argument
    tx_data,           \* the data argument
    tx_packet,         \* send_extended's local payload (the built packet)
    tx_result,         \* [kind |-> "none" | "Ok" | "IoError" | "TooLarge", value]
    \* ---- vex.rs: receive_simple ---------------------------------------
    rx_pc,             \* "idle" | "search" | "blocked" | "done"
    header_index,      \* local header_index
    now,               \* the system clock, in ms
    then_,             \* local then: the deadline
    rx_result,         \* [kind |-> "none" | "Ok" | "IoError" | "SyncTimeout" |
                       \*           "UnknownCommand" | "Panic", command, payload]
    \* ---- files.rs: upload_file ----------------------------------------
    up_pc,             \* "idle" | "write" | "closing" | "done"
    dev_timeout,       \* the device's timeout: None (the default) or Some(ms)
    dev_calls,         \* the calls made on the device and the file handle, in
                       \* order: [call, timeout], call being "open" | "write" |
                       \* "set_timeout" | "close" and timeout the device's
                       \* timeout during the call (after it, for set_timeout)
    up_result          \* [kind |-> "none" | "Ok" | "Err" | "Panic", at]

utilVars == <<max_packet_size, file_size, addr, data, wf_pc, max_size, size, i,
              packet_size, how_much, bar, writes, reads, wf_result>>

streamVars == <<loopback, tail, inp, consumed, stream_ops>>
txVars == <<tx_op, tx_cmd, tx_data, tx_packet, tx_result>>
rxVars == <<rx_pc, header_index, now, then_, rx_result>>

upVars == <<up_pc, dev_timeout, dev_calls, up_result>>

vars == <<utilVars, streamVars, txVars, rxVars, upVars>>

----------------------------------------------------------------------------
(* Bounds of the model *)

MaxBuf == 8        \* longest buffer handed to write_file_progress
MaxFile == 9       \* largest declared file size
MaxPkt == 9        \* largest negotiated max_packet_size
MaxInput == 4      \* most bytes a device stream delivers
MaxSmallLen == 2   \* longest payload enumerated byte by byte
MaxTicks == 3      \* clock ticks in one behaviour
TickMs == 50       \* length of a clock tick, in ms

(* Program constants *)

UploadAddr == 58720256     \* 0x3800000, the address upload_file opens at
CloseTimeoutMs == 15000    \* Duration::new(15, 0)
ExecuteFile == 24          \* VexDeviceCommand::ExecuteFile = 0x18
Extended == 86             \* VexDeviceCommand::Extended = 0x56
HeaderLoopBound == 3       \* while header_index < 3
DefaultTimeoutMs == 100    \* Duration::new(0, 100000000)
SplitLength == 128         \* if payload_length > 0x80
CrcPoly == 4129            \* VEX_CRC16.poly = 0x1021
CrcInit == 65535           \* VEX_CRC16.init = 0xffff
CrcXorOut == 0             \* VEX_CRC16.xorout = 0x0000

\* u16 arithmetic wraps at 2^16.  The u32 and usize quantities of the model
\* (sizes, offsets, addresses) stay far below 2^31, inside TLC's integers,
\* so their casts and sums are the identity here.
U16 == 65536

Min(a, b) == IF a < b THEN a ELSE b

\* an Option<Duration>, in ms
NoneDuration == [some |-> FALSE, ms |-> 0]
SomeDuration(t) == [some |-> TRUE, ms |-> t]

\* the variables of upload_file before the call, and in the specifications
\* of the functions it is built on
InitUpIdle ==
    /\ up_pc = "idle"
    /\ dev_timeout = NoneDuration
    /\ dev_calls = <<>>
    /\ up_result = [kind |-> "none", at |-> ""]

RECURSIVE Concat(_)
Concat(ss) == IF ss = <<>> THEN <<>> ELSE Head(ss) \o Concat(Tail(ss))

RECURSIVE SumLen(_)
SumLen(ss) == IF ss = <<>> THEN 0 ELSE Len(Head(ss)) + SumLen(Tail(ss))

\* ceil(a / b) for b >= 1
CeilDiv(a, b) == (a + b - 1) \div b

----------------------------------------------------------------------------
(* util.rs: write_file_progress *)

\* a buffer of n bytes, all different for n <= 256
Buffer(n, seed) == [k \in 1..n |-> (seed + 16 * (k - 1)) % 256]

\* max_size: integer halves and quarters in u16
\* faulty variant: three quarters as m * 3 / 4 in u16 arithmetic
MaxSizeTimes3(m) == ((m * 3) % U16) \div 4
MaxSize(m) == ((m \div 2) + (m \div 4)) % U16

\* size: the declared size when the vector is longer, else the vector's
SizeOfBuffer(len, fs) == len
SizeOf(len, fs) == IF len > fs THEN fs ELSE len

\* packet_size of the iteration at offset ix
PacketSizeAll(sz, ms, ix) == sz % U16
PacketSize(sz, ms, ix) ==
    IF sz < ms THEN sz % U16
    ELSE IF ix + ms > sz THEN (sz - ix) % U16
    ELSE ms

\* handle.metadata.addr + i as u32
WriteAddr(base, ix) == base + ix

NoResult == [kind |-> "none", value |-> 0]

InitUtilLocals ==
    /\ wf_pc = "idle"
    /\ max_size = 0
    /\ size = 0
    /\ i = 0
    /\ packet_size = 0
    /\ how_much = 0
    /\ bar = [len |-> 0, pos |-> 0, finished |-> FALSE]
    /\ writes = <<>>
    /\ reads = {}
    /\ wf_result = NoResult

\* the variables of write_file_progress in the specifications of vex.rs
InitUtilIdle ==
    /\ InitUtilLocals
    /\ max_packet_size = 0
    /\ file_size = 0
    /\ addr = 0
    /\ data = <<>>

\* lines 103-136: the prologue up to the construction of the iterator;
\* step_by panics on a step of 0
WfpEnter ==
    /\ wf_pc = "idle"
    /\ max_size' = MaxSize(max_packet_size)
    /\ size' = SizeOf(Len(data), file_size)
    /\ how_much' = 0
    /\ bar' = [len |-> size', pos |-> 0, finished |-> FALSE]
    /\ i' = 0
    /\ IF max_size' = 0
       THEN /\ wf_pc' = "done"
            /\ wf_result' = [kind |-> "Panic", value |-> 0]
       ELSE /\ wf_pc' = "loop"
            /\ UNCHANGED wf_result
    /\ UNCHANGED <<max_packet_size, file_size, addr, data, packet_size, writes, reads>>

\* lines 136-151: the iterator yields i, the chunk is cut out of the buffer
\* and write_some is called with it
WfpCall ==
    /\ wf_pc = "loop"
    /\ i < size
    /\ packet_size' = PacketSize(size, max_size, i)
    /\ IF i + packet_size' > Len(data)
       THEN \* the slice data[i..i+packet_size] is out of range
            /\ wf_pc' = "done"
            /\ wf_result' = [kind |-> "Panic", value |-> 0]
            /\ UNCHANGED <<writes, reads>>
       ELSE /\ writes' = Append(writes,
                    [address |-> WriteAddr(addr, i),
                     payload |-> SubSeq(data, i + 1, i + packet_size'),
                     status |-> "pending",
                     reported |-> 0])
            /\ reads' = reads \cup (i..(i + packet_size' - 1))
            /\ wf_pc' = "writing"
            /\ UNCHANGED wf_result
    /\ UNCHANGED <<max_packet_size, file_size, addr, data, max_size, size, i,
                   how_much, bar>>

\* the byte counts an Ok of write_some can carry for a chunk of n bytes: all
\* of them, or one less
WriteReports(ok, n) == IF ok THEN {n, n - 1} ELSE {0}

\* lines 151-159: write_some returns; on Err the ? operator returns it, on Ok
\* the bar and how_much advance and the iterator steps
\* faulty variant: the error of write_some is dropped and the loop goes on
WfpReturnIgnoreErr(ok) ==
    /\ wf_pc = "writing"
    /\ \E r \in WriteReports(ok, packet_size) :
          writes' = [writes EXCEPT ![Len(writes)].status = IF ok THEN "ok" ELSE "err",
                                   ![Len(writes)].reported = r]
    /\ bar' = [bar EXCEPT !.pos = @ + packet_size]
    /\ how_much' = how_much + packet_size
    /\ i' = i + max_size
    /\ wf_pc' = "loop"
    /\ UNCHANGED <<max_packet_size, file_size, addr, data, max_size, size,
                   packet_size, reads, wf_result>>

\* faulty variant: progress is counted a full max_size per chunk
WfpReturnFullChunk(ok) ==
    /\ wf_pc = "writing"
    /\ \E r \in WriteReports(ok, packet_size) :
          writes' = [writes EXCEPT ![Len(writes)].status = IF ok THEN "ok" ELSE "err",
                                   ![Len(writes)].reported = r]
    /\ IF ok
       THEN /\ bar' = [bar EXCEPT !.pos = @ + max_size]
            /\ how_much' = how_much + max_size
            /\ i' = i + max_size
            /\ wf_pc' = "loop"
            /\ UNCHANGED wf_result
       ELSE /\ wf_pc' = "done"
            /\ wf_result' = [kind |-> "Err", value |-> Len(writes)]
            /\ UNCHANGED <<bar, how_much, i>>
    /\ UNCHANGED <<max_packet_size, file_size, addr, data, max_size, size,
                   packet_size, reads>>

WfpReturn(ok) ==
    /\ wf_pc = "writing"
    /\ \E r \in WriteReports(ok, packet_size) :
          writes' = [writes EXCEPT ![Len(writes)].status = IF ok THEN "ok" ELSE "err",
                                   ![Len(writes)].reported = r]
    /\ IF ok
       THEN /\ bar' = [bar EXCEPT !.pos = @ + packet_size]
            /\ how_much' = how_much + packet_size
            /\ i' = i + max_size
            /\ wf_pc' = "loop"
            /\ UNCHANGED wf_result
       ELSE /\ wf_pc' = "done"
            /\ wf_result' = [kind |-> "Err", value |-> Len(writes)]
            /\ UNCHANGED <<bar, how_much, i>>
    /\ UNCHANGED <<max_packet_size, file_size, addr, data, max_size, size,
                   packet_size, reads>>

\* lines 161-164: the iterator is exhausted; bar.finish() and Ok(how_much)
WfpFinish ==
    /\ wf_pc = "loop"
    /\ i >= size
    /\ bar' = [bar EXCEPT !.pos = bar.len, !.finished = TRUE]
    /\ wf_result' = [kind |-> "Ok", value |-> how_much]
    /\ wf_pc' = "done"
    /\ UNCHANGED <<max_packet_size, file_size, addr, data, max_size, size, i,
                   packet_size, how_much, writes, reads>>

----------------------------------------------------------------------------
(* vex.rs: the wrapped stream and the packet codec *)

Commands == {ExecuteFile, Extended}

\* create_packet: the magic number and the command code
create_packet(msg) == <<201, 54, 184, 71, msg>>

\* This is the expected header in the response
expected_header == <<170, 85>>

RECURSIVE BitXor(_, _)
BitXor(a, b) ==
    IF a = 0 THEN b
    ELSE IF b = 0 THEN a
    ELSE ((a + b) % 2) + 2 * BitXor(a \div 2, b \div 2)

RECURSIVE BitOr(_, _)
BitOr(a, b) ==
    IF a = 0 THEN b
    ELSE IF b = 0 THEN a
    ELSE (IF a % 2 = 1 \/ b % 2 = 1 THEN 1 ELSE 0) + 2 * BitOr(a \div 2, b \div 2)

RECURSIVE Pow2(_)
Pow2(n) == IF n = 0 THEN 1 ELSE 2 * Pow2(n - 1)

\* x.checked_shr(s).unwrap_or(0) on an unsigned integer of the given width
CheckedShrOr0(x, s, width) == IF s >= width THEN 0 ELSE x \div Pow2(s)

\* one bit of the CRC register: shift left, xor the polynomial on carry out
CrcShift(crc) ==
    IF crc >= 32768
    THEN BitXor((2 * crc) % U16, CrcPoly)
    ELSE (2 * crc) % U16

\* one byte: xored into the high byte (refin = false), then eight shifts
CrcByte(crc, byte) ==
    CrcShift(CrcShift(CrcShift(CrcShift(
    CrcShift(CrcShift(CrcShift(CrcShift(BitXor(crc, byte * 256)))))))))

\* digest.update: the bytes lo..hi folded into the register in order (the
\* range is halved only to keep the evaluation shallow)
RECURSIVE CrcUpdate(_, _, _, _)
CrcUpdate(crc, bytes, lo, hi) ==
    IF lo > hi THEN crc
    ELSE IF lo = hi THEN CrcByte(crc, bytes[lo])
    ELSE LET mid == (lo + hi) \div 2
             left == CrcUpdate(crc, bytes, lo, mid)
         IN  IF left >= 0 THEN CrcUpdate(left, bytes, mid + 1, hi) ELSE 0

\* crc::Crc::<u16>::new(&VEX_CRC16): digest, update, finalize (refout = false)
Crc16(bytes) == BitXor(CrcUpdate(CrcInit, bytes, 1, Len(bytes)), CrcXorOut)

\* the length bytes create_extended_packet pushes for a payload_length: u8
LengthField(payload_length) ==
    IF payload_length > SplitLength
    THEN << BitOr(CheckedShrOr0(payload_length, 8, 8), 128),
            payload_length % 256 >>
    ELSE <<>>

\* faulty variant: the checksum covers the inner region only
ExtendedCrcInputInner(packet) == packet

\* payload_proper: the payload as it would appear when sent over the wire
ExtendedCrcInput(packet) == create_packet(Extended) \o packet

\* create_extended_packet: [ok, packet]; ok is FALSE when the length does
\* not convert to u8
create_extended_packet(msg, payload) ==
    IF Len(payload) > 255
    THEN [ok |-> FALSE, packet |-> <<>>]
    ELSE LET packet == <<msg>> \o LengthField(Len(payload)) \o payload
             crc == Crc16(ExtendedCrcInput(packet))
         IN  [ok |-> TRUE,
              packet |-> packet \o << CheckedShrOr0(crc, 8, 16) % 256,
                                      crc % 256 >>]

NoTx == [kind |-> "none", value |-> 0]
NoRx == [kind |-> "none", command |-> 0, payload |-> <<>>]

InitTxIdle ==
    /\ tx_op = "none"
    /\ tx_cmd = 0
    /\ tx_data = <<>>
    /\ tx_packet = <<>>
    /\ tx_result = NoTx

InitRxIdle ==
    /\ rx_pc = "idle"
    /\ header_index = 0
    /\ now = 0
    /\ then_ = 0
    /\ rx_result = NoRx

\* the variables of vex.rs in the specification of write_file_progress
InitVexIdle ==
    /\ loopback = FALSE
    /\ tail = "eof"
    /\ inp = <<>>
    /\ consumed = <<>>
    /\ stream_ops = <<>>
    /\ InitTxIdle
    /\ InitRxIdle

----------------------------------------------------------------------------
(* vex.rs: send_simple, send_extended *)

\* the most bytes the stream takes in one write call, of a buffer of n: all
\* of them, a half or a third
WriteCaps(n) == {n, (n + 1) \div 2, (n + 2) \div 3}

\* what the stream does while n bytes are sent: it takes at most cap bytes
\* per call; the call that would take the at-th piece is hit by the fault
\* ("interrupted": Err(ErrorKind::Interrupted), "err": any other error,
\* "zero": Ok(0)); the flush succeeds or fails
WriteOutcomes(n) ==
    {o \in [cap : WriteCaps(n), fault : {"none", "interrupted", "err", "zero"},
            at : 0..CeilDiv(n, (n + 2) \div 3), flush_ok : BOOLEAN] :
        /\ (o.fault = "none") <=> (o.at = 0)
        /\ o.at <= CeilDiv(n, o.cap)
        /\ o.fault \in {"err", "zero"} => o.flush_ok}

\* std write_all (line 166) on the stream of outcome o, `pos` bytes of buf
\* taken so far and the next piece being number `piece`: write is called
\* with what is left until nothing is left; Ok(0) and every error but
\* Interrupted end it with an error, Interrupted calls write again
RECURSIVE write_all(_, _, _, _)
write_all(buf, pos, piece, o) ==
    LET left == Len(buf) - pos
        call(taken, res) ==
            [op |-> "write", offered |-> left, bytes |-> taken, res |-> res]
    IN  IF left = 0 THEN [ok |-> TRUE, ops |-> <<>>, taken |-> pos]
        ELSE IF o.at = piece /\ o.fault = "err"
        THEN [ok |-> FALSE, ops |-> <<call(<<>>, "err")>>, taken |-> pos]
        ELSE IF o.at = piece /\ o.fault = "zero"
        THEN [ok |-> FALSE, ops |-> <<call(<<>>, "ok")>>, taken |-> pos]
        ELSE LET n == Min(o.cap, left)
                 rest == write_all(buf, pos + n, piece + 1, o)
                 again == IF o.at = piece /\ o.fault = "interrupted"
                          THEN <<call(<<>>, "interrupted")>>
                          ELSE <<>>
             IN  [ok |-> rest.ok,
                  ops |-> again \o <<call(SubSeq(buf, pos + 1, pos + n), "ok")>>
                                \o rest.ops,
                  taken |-> rest.taken]

\* lines 155-175: the packet is built, written with write_all and flushed
SendSimpleBody(command, bytes, o) ==
    LET packet == create_packet(command) \o bytes
        w == write_all(packet, 0, 1, o)
    IN  /\ inp' = IF loopback THEN inp \o SubSeq(packet, 1, w.taken) ELSE inp
        /\ IF ~w.ok
           THEN /\ stream_ops' = stream_ops \o w.ops
                /\ tx_result' = [kind |-> "IoError", value |-> 0]
           ELSE IF ~o.flush_ok
           THEN /\ stream_ops' = stream_ops \o w.ops \o <<[op |-> "flush", ok |-> FALSE]>>
                /\ tx_result' = [kind |-> "IoError", value |-> 0]
           ELSE /\ stream_ops' = stream_ops \o w.ops \o <<[op |-> "flush", ok |-> TRUE]>>
                /\ tx_result' = [kind |-> "Ok", value |-> Len(packet)]

send_simple(command, bytes) ==
    /\ tx_op = "none"
    /\ rx_pc = "idle"
    /\ tx_op' = "simple"
    /\ tx_cmd' = command
    /\ tx_data' = bytes
    /\ tx_packet' = <<>>
    /\ \E o \in WriteOutcomes(5 + Len(bytes)) : SendSimpleBody(command, bytes, o)
    /\ UNCHANGED <<loopback, tail, consumed>>

\* faulty variant: the outer header goes out before the packet is built
send_extended_HeaderFirst(command, bytes) ==
    /\ tx_op = "none"
    /\ rx_pc = "idle"
    /\ tx_op' = "extended"
    /\ tx_cmd' = command
    /\ tx_data' = bytes
    /\ LET built == create_extended_packet(command, bytes)
       IN  IF ~built.ok
           THEN /\ tx_packet' = <<>>
                /\ tx_result' = [kind |-> "TooLarge", value |-> 0]
                /\ stream_ops' = Append(stream_ops,
                      [op |-> "write", offered |-> 5,
                       bytes |-> create_packet(Extended), res |-> "ok"])
                /\ UNCHANGED inp
           ELSE /\ tx_packet' = built.packet
                /\ \E o \in WriteOutcomes(5 + Len(built.packet)) :
                      SendSimpleBody(Extended, built.packet, o)
    /\ UNCHANGED <<loopback, tail, consumed>>

\* lines 70-77: create_extended_packet(command, data)?, then
\* send_simple(Extended, payload)
send_extended(command, bytes) ==
    /\ tx_op = "none"
    /\ rx_pc = "idle"
    /\ tx_op' = "extended"
    /\ tx_cmd' = command
    /\ tx_data' = bytes
    /\ LET built == create_extended_packet(command, bytes)
       IN  IF ~built.ok
           THEN /\ tx_packet' = <<>>
                /\ tx_result' = [kind |-> "TooLarge", value |-> 0]
                /\ UNCHANGED <<stream_ops, inp>>
           ELSE /\ tx_packet' = built.packet
                /\ \E o \in WriteOutcomes(5 + Len(built.packet)) :
                      SendSimpleBody(Extended, built.packet, o)
    /\ UNCHANGED <<loopback, tail, consumed>>

\* bytes used in enumerated payloads and device streams
PayloadBytes == {170, 85, 1}

RECURSIVE SeqsUpTo(_, _)
SeqsUpTo(S, n) ==
    IF n = 0 THEN {<<>>}
    ELSE LET shorter == SeqsUpTo(S, n - 1)
         IN  shorter \cup {Append(q, b) : q \in {r \in shorter : Len(r) = n - 1}, b \in S}

SmallPayloads == SeqsUpTo(PayloadBytes, MaxSmallLen)

\* a payload of n bytes
Fill(n) == [k \in 1..n |-> (7 * k + 3) % 256]

\* payload lengths around the limits of the length field
LimitLengths == {127, 128, 129, 255, 256, 32767, 32768}

SendPayloads == SmallPayloads \cup {Fill(n) : n \in LimitLengths}

InitSend ==
    /\ loopback = FALSE
    /\ tail = "eof"
    /\ inp = <<>>
    /\ consumed = <<>>
    /\ stream_ops = <<>>
    /\ InitTxIdle
    /\ InitRxIdle
    /\ InitUtilIdle
    /\ InitUpIdle

NextSend ==
    \/ \E command \in Commands, bytes \in SendPayloads :
         send_simple(command, bytes) /\ UNCHANGED <<utilVars, rxVars, upVars>>
    \/ \E command \in Commands, bytes \in SendPayloads :
         send_extended(command, bytes) /\ UNCHANGED <<utilVars, rxVars, upVars>>

SpecSend == InitSend /\ [][NextSend]_vars

----------------------------------------------------------------------------
(* vex.rs: receive_simple *)

\* the timeout argument: None or Some(ms)
Timeouts ==
    {[some |-> FALSE, ms |-> 0], [some |-> TRUE, ms |-> 0], [some |-> TRUE, ms |-> TickMs]}

Zeros(n) == [k \in 1..n |-> 0]

\* receive_simple ends (or blocks for good) having taken `used` more bytes
RxEnd(pc, result, used) ==
    /\ rx_pc' = pc
    /\ rx_result' = result
    /\ inp' = SubSeq(inp, used + 1, Len(inp))
    /\ consumed' = consumed \o SubSeq(inp, 1, used)

\* a read_exact that the stream cannot fill: the error at the end of the
\* stream, or a wait that never ends
RxShort ==
    IF tail = "eof"
    THEN RxEnd("done", [kind |-> "IoError", command |-> 0, payload |-> <<>>], Len(inp))
    ELSE RxEnd("blocked", rx_result, Len(inp))

\* try to convert the command into its enum format (lines 142-151)
RxConvert(command, payload) ==
    IF command \in Commands
    THEN [kind |-> "Ok", command |-> command, payload |-> payload]
    ELSE [kind |-> "UnknownCommand", command |-> command, payload |-> <<>>]

\* lines 117-151, entered with `skip` bytes of inp already taken by the
\* header search: command and length, the extra length byte of an extended
\* command, one read of the payload, the conversion of the command
RxAfterHeader(skip) ==
    LET rest == SubSeq(inp, skip + 1, Len(inp))
    IN  IF Len(rest) < 2 THEN RxShort
        ELSE LET command == rest[1]
                 ext == (command = Extended)
             IN  IF ext /\ Len(rest) < 3 THEN RxShort
                 ELSE LET length == IF ext
                                    THEN BitOr((rest[2] * 256) % U16, rest[3])
                                    ELSE rest[2]
                          hdr == IF ext THEN 3 ELSE 2
                          avail == Len(rest) - hdr
                      IN  IF length > 0 /\ avail = 0 /\ tail = "block"
                          THEN RxEnd("blocked", rx_result, Len(inp))
                          ELSE \E n \in 0..Min(length, avail) :
                                 \* the single read returns n bytes: 0 only for
                                 \* an empty buffer or at the end of the stream
                                 /\ (n = 0) => (length = 0 \/ avail = 0)
                                 /\ RxEnd("done",
                                          RxConvert(command,
                                              SubSeq(rest, hdr + 1, hdr + n)
                                                  \o Zeros(length - n)),
                                          skip + hdr + n)

\* lines 81-95: the timeout is chosen and the deadline set
RecvStart(timeout) ==
    /\ rx_pc = "idle"
    /\ rx_pc' = "search"
    /\ header_index' = 0
    /\ then_' = now + (IF timeout.some THEN timeout.ms ELSE DefaultTimeoutMs)
    /\ UNCHANGED <<now, rx_result, streamVars>>

\* lines 98-115, one iteration of the header loop: one byte is read and
\* compared with expected_header[header_index], then the deadline is
\* checked; leaving the loop, the rest of the function runs (lines 117-151)
RecvStep ==
    /\ rx_pc = "search"
    /\ inp # <<>> \/ tail = "eof"
    /\ IF inp = <<>>
       THEN /\ RxShort
            /\ UNCHANGED header_index
       ELSE IF header_index + 1 > Len(expected_header)
       THEN \* expected_header[header_index] is out of bounds
            /\ RxEnd("done", [kind |-> "Panic", command |-> 0, payload |-> <<>>], 1)
            /\ UNCHANGED header_index
       ELSE /\ header_index' = IF Head(inp) = expected_header[header_index + 1]
                               THEN header_index + 1
                               ELSE 0
            /\ IF now > then_ /\ header_index' < HeaderLoopBound
               THEN RxEnd("done",
                          [kind |-> "SyncTimeout", command |-> 0, payload |-> <<>>], 1)
               ELSE IF header_index' < HeaderLoopBound
               THEN RxEnd("search", rx_result, 1)
               ELSE RxAfterHeader(1)
    /\ UNCHANGED <<loopback, tail, stream_ops, now, then_>>

\* the system clock advances while receive_simple runs
Tick ==
    /\ rx_pc = "search"
    /\ now < MaxTicks * TickMs
    /\ now' = now + TickMs
    /\ UNCHANGED <<rx_pc, header_index, then_, rx_result, streamVars>>

\* bytes a device stream is made of
StreamBytes == {170, 85, 24, 86, 0, 1}

Init ==
    /\ loopback = FALSE
    /\ tail \in {"eof", "block"}
    /\ inp \in SeqsUpTo(StreamBytes, MaxInput)
    /\ consumed = <<>>
    /\ stream_ops = <<>>
    /\ InitTxIdle
    /\ InitRxIdle
    /\ InitUtilIdle
    /\ InitUpIdle

Next ==
    \/ \E timeout \in Timeouts : RecvStart(timeout) /\ UNCHANGED <<utilVars, txVars, upVars>>
    \/ RecvStep /\ UNCHANGED <<utilVars, txVars, upVars>>
    \/ Tick /\ UNCHANGED <<utilVars, txVars, upVars>>

Spec == Init /\ [][Next]_vars

InitLoop ==
    /\ loopback = TRUE
    /\ tail \in {"eof", "block"}
    /\ inp = <<>>
    /\ consumed = <<>>
    /\ stream_ops = <<>>
    /\ InitTxIdle
    /\ InitRxIdle
    /\ InitUtilIdle
    /\ InitUpIdle

NextLoop ==
    \/ \E command \in Commands, bytes \in SmallPayloads :
         send_simple(command, bytes) /\ UNCHANGED <<utilVars, rxVars, upVars>>
    \/ \E timeout \in Timeouts : RecvStart(timeout) /\ UNCHANGED <<utilVars, txVars, upVars>>
    \/ RecvStep /\ UNCHANGED <<utilVars, txVars, upVars>>
    \/ Tick /\ UNCHANGED <<utilVars, txVars, upVars>>

SpecLoop == InitLoop /\ [][NextLoop]_vars

----------------------------------------------------------------------------
(* Properties of receive_simple *)

\* everything the stream delivers: what was read and what is still to come
Delivered == consumed \o inp

\* C1: when send_simple(cmd, payload) has put its bytes on the stream and
\* receive_simple has read them back within its timeout, receive_simple has
\* returned Ok with exactly (cmd, payload).
C1_RoundTrip ==
    (/\ tx_op = "simple"
     /\ tx_result.kind = "Ok"
     /\ rx_pc = "done"
     /\ now <= then_) =>
        rx_result = [kind |-> "Ok", command |-> tx_cmd, payload |-> tx_data]

\* C5: when the stream delivers the marker AA 55, then a command byte that is
\* neither 0x18 nor 0x56 (here followed by a length byte of 0, so that the
\* frame is complete), receive_simple has ended, within its timeout, by
\* returning UnknownCommand with that byte.
C5_UnknownCommand ==
    (/\ rx_pc = "done"
     /\ now <= then_
     /\ Len(Delivered) >= 4
     /\ SubSeq(Delivered, 1, 2) = expected_header
     /\ Delivered[3] \notin Commands
     /\ Delivered[4] = 0) =>
        /\ rx_result.kind = "UnknownCommand"
        /\ rx_result.command = Delivered[3]

\* C6: once the deadline has passed on a stream that stays open and has not
\* delivered the marker, receive_simple has returned SyncTimeout or is still
\* able to take its next step: it is not blocked for good.
C6_SyncTimeout ==
    (/\ rx_pc # "idle"
     /\ now > then_
     /\ tail = "block"
     /\ header_index < Len(expected_header)) =>
        \/ rx_result.kind = "SyncTimeout"
        \/ rx_pc = "search" /\ ENABLED RecvStep

\* the stream starts with the marker, a known command and its length field
HasHeader(D) ==
    /\ Len(D) >= 4
    /\ SubSeq(D, 1, 2) = expected_header
    /\ D[3] \in Commands
    /\ D[3] = Extended => Len(D) >= 5

\* of a stream with HasHeader: the bytes before the payload, the length the
\* length field announces
FrameHdr(D) == IF D[3] = Extended THEN 5 ELSE 4
FrameLength(D) == IF D[3] = Extended THEN D[4] * 256 + D[5] ELSE D[4]

\* the stream holds a whole frame / a frame cut short in its payload
Framed(D) == HasHeader(D) /\ Len(D) >= FrameHdr(D) + FrameLength(D)
Truncated(D) == HasHeader(D) /\ Len(D) < FrameHdr(D) + FrameLength(D)

\* C14: when the stream delivers, before the deadline, the marker, a known
\* command, its length field and that many payload bytes, receive_simple is
\* not blocked and ends by returning Ok with that command and those payload
\* bytes; and it returns Ok in no other way.
C14_ReachesDone ==
    LET D == Delivered
    IN  /\ (rx_pc # "idle" /\ now <= then_ /\ Framed(D)) =>
              /\ rx_pc # "blocked"
              /\ rx_pc = "done" =>
                    rx_result = [kind |-> "Ok", command |-> D[3],
                                 payload |-> SubSeq(D, FrameHdr(D) + 1,
                                                    FrameHdr(D) + FrameLength(D))]
        /\ rx_result.kind = "Ok" => Framed(D)

\* C15: the match count of the header search is within 0..2, the search is
\* over as soon as the count is 2, and the expected marker is never indexed
\* at a position >= 2.
C15_CountBounded ==
    /\ header_index \in 0..Len(expected_header)
    /\ rx_pc = "search" => header_index < Len(expected_header)
    /\ rx_result.kind # "Panic"

\* C16: every byte read by the header search makes the match count either
\* count + 1, when the byte is the expected marker byte at position count,
\* or 0.
C16_Resync ==
    [][(rx_pc = "search" /\ inp # <<>> /\ consumed' # consumed) =>
          header_index' =
             IF /\ header_index < Len(expected_header)
                /\ Head(inp) = expected_header[header_index + 1]
             THEN header_index + 1
             ELSE 0]_vars

\* C17: receive_simple returns Ok only with exactly the `length` payload
\* bytes read from the stream, and on a stream that ends before `length`
\* payload bytes it returns TruncatedPayload.
C17_Truncated ==
    LET D == Delivered
    IN  /\ rx_result.kind = "Ok" =>
              /\ Framed(D)
              /\ rx_result.payload = SubSeq(D, FrameHdr(D) + 1,
                                            FrameHdr(D) + FrameLength(D))
        /\ (rx_pc = "done" /\ now <= then_ /\ tail = "eof" /\ Truncated(D)) =>
              rx_result.kind = "TruncatedPayload"

----------------------------------------------------------------------------
(* Properties of send_extended *)

\* the bytes put on the stream by the write calls, in order
RECURSIVE Written(_)
Written(ops) ==
    IF ops = <<>> THEN <<>>
    ELSE (IF Head(ops).op = "write" THEN Head(ops).bytes ELSE <<>>)
         \o Written(Tail(ops))

\* C2: for every payload P of at most 0x7FFF bytes create_extended_packet
\* succeeds and puts, right after the inner command byte and before the
\* payload, a length field: one byte len(P) when len(P) <= 0x80, else two
\* bytes, the first with its high bit set, with
\* ((first & 0x7F) << 8) | second = len(P).
C2_LengthField ==
    (tx_op = "extended" /\ Len(tx_data) <= 32767) =>
        LET n == Len(tx_data)
            p == tx_packet
        IN  /\ tx_result.kind # "TooLarge"
            /\ p[1] = tx_cmd
            /\ IF n <= 128
               THEN /\ Len(p) >= 2 + n
                    /\ p[2] = n
                    /\ SubSeq(p, 3, 2 + n) = tx_data
               ELSE /\ Len(p) >= 3 + n
                    /\ p[2] >= 128
                    /\ (p[2] % 128) * 256 + p[3] = n
                    /\ SubSeq(p, 4, 3 + n) = tx_data

\* C7: the last two bytes of every frame send_extended has written are the
\* big-endian CRC-16 (poly 0x1021, init 0xFFFF) of all the bytes of the frame
\* before them: the magic, the Extended byte, the inner command and what
\* follows it up to the end of the payload.
C7_Checksum ==
    (tx_op = "extended" /\ tx_result.kind = "Ok") =>
        LET W == Written(stream_ops)
            n == Len(W)
            c == Crc16(SubSeq(W, 1, n - 2))
        IN  /\ n >= 8
            /\ tx_result.value = n
            /\ SubSeq(W, 1, 5) = <<201, 54, 184, 71, 86>>
            /\ W[6] = tx_cmd
            /\ SubSeq(W, n - 1 - Len(tx_data), n - 2) = tx_data
            /\ W[n - 1] = c \div 256
            /\ W[n] = c % 256

\* Extended wrapping ExecuteFile with an empty payload: the checksum bytes
\* are E2 A6, the CRC-16/1021/FFFF of C9 36 B8 47 56 18
C7_Witness ==
    /\ tx_op = "extended"
    /\ tx_result.kind = "Ok"
    /\ Written(stream_ops) = <<201, 54, 184, 71, 86, 24, 226, 166>>

OpsOf(o) == {k \in 1..Len(stream_ops) : stream_ops[k].op = o}

C8_Oversized ==
    (tx_op = "extended") =>
        /\ Len(tx_data) > 32767 => tx_result.kind = "TooLarge"
        /\ tx_result.kind = "TooLarge" =>
              /\ stream_ops = <<>>
              /\ tx_packet = <<>>
              /\ inp = <<>>

\* a payload of 0x8000 bytes is refused with the stream untouched
C8_Witness ==
    /\ tx_op = "extended"
    /\ Len(tx_data) = 32768
    /\ tx_result.kind = "TooLarge"
    /\ stream_ops = <<>>

----------------------------------------------------------------------------
(* the specification of write_file_progress *)

\* negotiated packet sizes at the upper end and in the middle of the u16
\* range, one in each residue class modulo 4
LimitPacketSizes == {32767, 32768, 65533, 65534, 65535}

InitWrite ==
    /\ max_packet_size \in (0..MaxPkt) \cup LimitPacketSizes
    /\ file_size \in 0..MaxFile
    /\ addr \in {0, UploadAddr}
    /\ \E n \in 0..MaxBuf : data = Buffer(n, 1)
    /\ InitUtilLocals
    /\ InitVexIdle
    /\ InitUpIdle

NextWrite ==
    \/ WfpEnter /\ UNCHANGED <<streamVars, txVars, rxVars, upVars>>
    \/ WfpCall /\ UNCHANGED <<streamVars, txVars, rxVars, upVars>>
    \/ \E ok \in BOOLEAN : WfpReturn(ok) /\ UNCHANGED <<streamVars, txVars, rxVars, upVars>>
    \/ WfpFinish /\ UNCHANGED <<streamVars, txVars, rxVars, upVars>>

SpecWrite == InitWrite /\ [][NextWrite]_vars

----------------------------------------------------------------------------
(* Properties of write_file_progress *)

Payloads == [k \in 1..Len(writes) |-> writes[k].payload]

\* the payloads of the calls that returned Ok
RECURSIVE OkBytes(_)
OkBytes(ws) ==
    IF ws = <<>> THEN 0
    ELSE (IF Head(ws).status = "ok" THEN Len(Head(ws).payload) ELSE 0)
         + OkBytes(Tail(ws))

AllWritesOk == \A k \in 1..Len(writes) : writes[k].status = "ok"

EffectiveSize == Min(Len(data), file_size)

\* C3: with chunk limit L >= 1 and E = min(len(buffer), declared size), the
\* calls issued are the first calls of the schedule "k-th call at base + k*L,
\* L bytes each but the last, which carries the remaining E - k*L in 1..L";
\* when every call succeeds there are exactly ceil(E / L) of them and the
\* function returns Ok(E); with E = 0 there is no call and the result is Ok(0).
C3_ChunkSchedule ==
    (wf_pc # "idle" /\ max_size >= 1) =>
        LET E == EffectiveSize
            L == max_size
            N == CeilDiv(E, L)
        IN  /\ Len(writes) <= N
            /\ \A k \in 1..Len(writes) :
                  /\ writes[k].address = addr + (k - 1) * L
                  /\ Len(writes[k].payload) =
                         IF k < N THEN L ELSE E - (k - 1) * L
                  /\ Len(writes[k].payload) \in 1..L
            /\ (wf_pc = "done" /\ AllWritesOk) =>
                  /\ wf_result = [kind |-> "Ok", value |-> E]
                  /\ Len(writes) = N
            /\ (E = 0) => writes = <<>>

\* three calls, the last a remainder shorter than the chunk limit
C3_Witness ==
    /\ wf_result.kind = "Ok"
    /\ max_size >= 2
    /\ Len(writes) = 3
    /\ Len(writes[3].payload) < max_size

\* C4: every buffer index read is below E = min(len(buffer), declared size),
\* no slice leaves the buffer, and the payloads handed to write_some, in call
\* order, concatenate to a prefix of buffer[0..E), to all of it on Ok.
C4_Bounds ==
    LET E == EffectiveSize
        sent == Concat(Payloads)
    IN  /\ \A x \in reads : 0 <= x /\ x < E
        /\ Len(sent) <= E
        /\ sent = SubSeq(data, 1, Len(sent))
        /\ wf_result.kind = "Ok" => sent = SubSeq(data, 1, E)
        /\ wf_result.kind = "Panic" => MaxSize(max_packet_size) = 0

\* a declared size below the buffer length, transferred in several chunks
C4_Witness ==
    /\ wf_result.kind = "Ok"
    /\ file_size < Len(data)
    /\ Len(writes) >= 2
    /\ reads = 0..(file_size - 1)

\* C13 (as stated): for every max_packet_size m the chunk limit equals
\* floor(m * 3 / 4) and is never larger than it.
C13_ThreeQuarters ==
    (wf_pc # "idle") =>
        /\ max_size = (max_packet_size * 3) \div 4
        /\ max_size <= (max_packet_size * 3) \div 4

\* C13 (amended): the chunk limit is m div 2 + m div 4, computed without
\* overflow of the 16-bit type; it is never larger than floor(m * 3 / 4),
\* equals it unless m mod 4 = 3, and is one less when m mod 4 = 3.
C13_ChunkLimit ==
    (wf_pc # "idle") =>
        LET m == max_packet_size
            exact == (m * 3) \div 4
        IN  /\ max_size = (m \div 2) + (m \div 4)
            /\ max_size < U16
            /\ max_size <= exact
            /\ max_size = exact - (IF m % 4 = 3 THEN 1 ELSE 0)

\* the largest packet size: the limit is 49150, one less than floor(3m/4)
C13_Witness ==
    /\ wf_pc # "idle"
    /\ max_packet_size = 65535
    /\ max_size = 49150

\* the byte counts the write_some calls returned
RECURSIVE ReportedBytes(_)
ReportedBytes(ws) ==
    IF ws = <<>> THEN 0 ELSE Head(ws).reported + ReportedBytes(Tail(ws))

\* C18: when write_file_progress returns Ok(n), n is the sum of the byte
\* counts its write_some calls returned, and every chunk after the first
\* starts right after the bytes the previous call reported written.
C18_Accepted ==
    /\ wf_result.kind = "Ok" => wf_result.value = ReportedBytes(writes)
    /\ \A k \in 2..Len(writes) :
          writes[k].address = writes[k - 1].address + writes[k - 1].reported

\* C19: write_file_progress never panics and never issues a zero-length
\* write, and it is never stuck before returning Ok or Err: while it has
\* not returned, a next step exists, and the calls issued stay within the
\* size of the buffer.
C19_Terminates ==
    /\ wf_result.kind # "Panic"
    /\ \A k \in 1..Len(writes) : Len(writes[k].payload) >= 1
    /\ Len(writes) <= Len(data)
    /\ wf_pc \in {"loop", "writing"} => ENABLED NextWrite
    /\ wf_pc = "done" => wf_result.kind \in {"Ok", "Err"}

\* C9: a failed write_some is the last call: the function is done with that
\* error, the failed chunk is not counted, and no address is written twice.
C9_AbortOnFailure ==
    /\ \A k \in 1..Len(writes) :
          writes[k].status = "err" =>
             /\ k = Len(writes)
             /\ wf_pc = "done"
             /\ wf_result = [kind |-> "Err", value |-> k]
             /\ how_much = SumLen(SubSeq(Payloads, 1, k - 1))
             /\ bar.pos = how_much
    /\ wf_result.kind = "Err" => writes[Len(writes)].status = "err"
    /\ \A j, k \in 1..Len(writes) :
          j # k => writes[j].address # writes[k].address

\* the second call fails while chunks are still left to write
C9_Witness ==
    /\ wf_result.kind = "Err"
    /\ Len(writes) = 2
    /\ how_much > 0
    /\ how_much + packet_size < size

\* the state part of C10
C10_ProgressInv ==
    /\ bar.pos = OkBytes(writes)
    /\ bar.pos <= EffectiveSize
    /\ bar.pos = how_much
    /\ wf_result.kind = "Ok" =>
          /\ bar.pos = EffectiveSize
          /\ wf_result.value = bar.pos

\* the step part of C10
C10_ProgressStep ==
    /\ bar'.pos >= bar.pos
    /\ bar'.pos # bar.pos =>
          /\ wf_pc = "writing"
          /\ writes'[Len(writes)].status = "ok"
          /\ bar'.pos = bar.pos + Len(writes[Len(writes)].payload)
    /\ (wf_pc = "writing" /\ writes'[Len(writes)].status = "ok") =>
          bar'.pos = bar.pos + Len(writes[Len(writes)].payload)

\* C10: the reported progress is the number of bytes of the calls that have
\* returned Ok, is never above E, equals how_much, and on Ok equals E and the
\* returned total; it never decreases and grows only when a call returns, by
\* that call's chunk size.
C10_Progress == []C10_ProgressInv /\ [][C10_ProgressStep]_vars

\* a call is pending with earlier chunks already counted
C10_Witness ==
    /\ wf_pc = "writing"
    /\ Len(writes) = 3
    /\ bar.pos = 2 * max_size
    /\ bar.pos < size

----------------------------------------------------------------------------
(* files.rs: upload_file *)

\* device.open(...)? returns (lines 19-30): the file handle with its
\* negotiated transfer metadata, or the error
UpOpen(ok) ==
    /\ up_pc = "idle"
    /\ dev_calls' = Append(dev_calls, [call |-> "open", timeout |-> dev_timeout])
    /\ IF ok
       THEN /\ up_pc' = "write"
            /\ UNCHANGED up_result
       ELSE /\ up_pc' = "done"
            /\ up_result' = [kind |-> "Err", at |-> "open"]
    /\ UNCHANGED <<dev_timeout, utilVars>>

\* util::write_file_progress(&mut fh, data) runs (line 35)
UpWrite ==
    /\ up_pc = "write"
    /\ \/ WfpEnter /\ UNCHANGED dev_calls
       \/ /\ WfpCall
          /\ dev_calls' = IF wf_pc' = "writing"
                          THEN Append(dev_calls, [call |-> "write", timeout |-> dev_timeout])
                          ELSE dev_calls
       \/ \E ok \in BOOLEAN : WfpReturn(ok) /\ UNCHANGED dev_calls
       \/ WfpFinish /\ UNCHANGED dev_calls
    /\ UNCHANGED <<up_pc, dev_timeout, up_result>>

\* faulty variant: the file handle is closed whatever write_file_progress
\* returned
UpWrittenAlwaysClose ==
    /\ up_pc = "write"
    /\ wf_pc = "done"
    /\ dev_timeout' = SomeDuration(CloseTimeoutMs)
    /\ dev_calls' = dev_calls \o
          << [call |-> "set_timeout", timeout |-> dev_timeout'],
             [call |-> "close", timeout |-> dev_timeout'] >>
    /\ up_pc' = "closing"
    /\ UNCHANGED <<up_result, utilVars>>

\* lines 35-50: write_file_progress has returned; its error (or panic) ends
\* upload_file, else the timeout is raised and fh.close is called
UpWritten ==
    /\ up_pc = "write"
    /\ wf_pc = "done"
    /\ IF wf_result.kind = "Ok"
       THEN /\ dev_timeout' = SomeDuration(CloseTimeoutMs)
            /\ dev_calls' = dev_calls \o
                  << [call |-> "set_timeout", timeout |-> dev_timeout'],
                     [call |-> "close", timeout |-> dev_timeout'] >>
            /\ up_pc' = "closing"
            /\ UNCHANGED up_result
       ELSE /\ up_pc' = "done"
            /\ up_result' = [kind |-> wf_result.kind, at |-> "write"]
            /\ UNCHANGED <<dev_timeout, dev_calls>>
    /\ UNCHANGED utilVars

\* lines 50-68: fh.close(...)? returns; then duration_since(time)? (line 54),
\* set_timeout(None) (line 58), duration_since(time)? (line 65) and Ok(()).
\* clock names the duration_since that finds the system clock set back
\* behind the start of the upload, if one does
UpClosed(ok, clock) ==
    /\ up_pc = "closing"
    /\ up_pc' = "done"
    /\ IF ~ok
       THEN /\ up_result' = [kind |-> "Err", at |-> "close"]
            /\ UNCHANGED <<dev_timeout, dev_calls>>
       ELSE IF clock = "back_54"
       THEN /\ up_result' = [kind |-> "Err", at |-> "clock"]
            /\ UNCHANGED <<dev_timeout, dev_calls>>
       ELSE /\ dev_timeout' = NoneDuration
            /\ dev_calls' = Append(dev_calls,
                  [call |-> "set_timeout", timeout |-> dev_timeout'])
            /\ up_result' = IF clock = "back_65"
                            THEN [kind |-> "Err", at |-> "clock"]
                            ELSE [kind |-> "Ok", at |-> ""]
    /\ UNCHANGED utilVars

InitUpload ==
    /\ max_packet_size \in 0..MaxPkt
    /\ file_size \in 0..MaxFile
    /\ addr = UploadAddr
    /\ \E n \in 0..MaxBuf : data = Buffer(n, 1)
    /\ InitUtilLocals
    /\ InitVexIdle
    /\ InitUpIdle

NextUpload ==
    \/ \E ok \in BOOLEAN : UpOpen(ok) /\ UNCHANGED <<streamVars, txVars, rxVars>>
    \/ UpWrite /\ UNCHANGED <<streamVars, txVars, rxVars>>
    \/ UpWritten /\ UNCHANGED <<streamVars, txVars, rxVars>>
    \/ \E ok \in BOOLEAN, clock \in {"ok", "back_54", "back_65"} :
         UpClosed(ok, clock) /\ UNCHANGED <<streamVars, txVars, rxVars>>

SpecUpload == InitUpload /\ [][NextUpload]_vars

----------------------------------------------------------------------------
(* Properties of upload_file *)

CallsOf(c) == {k \in 1..Len(dev_calls) : dev_calls[k].call = c}

\* C11: the device timeout is the default during open and during every
\* chunk write, is 15 s when close is invoked, and is the default again
\* whenever upload_file has returned after raising it, whether close
\* succeeded or failed.
C11_TimeoutBracket ==
    /\ \A k \in CallsOf("open") \cup CallsOf("write") :
          dev_calls[k].timeout = NoneDuration
    /\ \A k \in CallsOf("close") :
          dev_calls[k].timeout = SomeDuration(CloseTimeoutMs)
    /\ (up_pc = "done" /\ CallsOf("set_timeout") # {}) =>
          dev_timeout = NoneDuration

\* C20: open is called exactly once and before anything else; close is
\* called at most once, only when every chunk write has succeeded, and no
\* write follows it; when open or a chunk write has failed, upload_file
\* returns that error, close is never called and the timeout never changed.
C20_SessionOrder ==
    /\ Cardinality(CallsOf("open")) <= 1
    /\ up_pc # "idle" => CallsOf("open") = {1}
    /\ Cardinality(CallsOf("write")) = Len(writes)
    /\ Cardinality(CallsOf("close")) <= 1
    /\ \A k \in CallsOf("close") :
          /\ AllWritesOk
          /\ wf_result.kind = "Ok"
          /\ \A j \in CallsOf("write") : j < k
    /\ up_result.at = "open" => (writes = <<>> /\ up_result.kind = "Err")
    /\ (\/ up_result.at \in {"open", "write"}
        \/ \E k \in 1..Len(writes) : writes[k].status = "err") =>
          /\ CallsOf("close") = {}
          /\ CallsOf("set_timeout") = {}
          /\ dev_timeout = NoneDuration
    /\ (up_pc = "done" /\ \E k \in 1..Len(writes) : writes[k].status = "err") =>
          up_result = [kind |-> "Err", at |-> "write"]

\* the second chunk write failed: upload_file returned the error after
\* open and two writes, with no close and the timeout untouched
C20_Witness ==
    /\ up_pc = "done"
    /\ up_result = [kind |-> "Err", at |-> "write"]
    /\ Len(dev_calls) = 3
    /\ writes[2].status = "err"

====
